---- MODULE Spec2Model ----
(***************************************************************************)
(* Chunk streaming of bevy-project/src/client.rs: the viewer tracker       *)
(* (update_world_position), the chunk reconciler (manage_chunks), the      *)
(* chunk spawner (spawn_chunk), the water presence test                    *)
(* (generate_water_mesh) and the height-to-color ramp (get_terrain_color); *)
(* and the command-line dispatch of bevy-project/src/main.rs.              *)
(*                                                                         *)
(* Numbers.  Every f32 of the source is a fixed-point integer here:        *)
(* lengths and heights count tenths of a world unit (50.0 is 500, 0.3 is   *)
(* 3), color channels count 1/600 (0.8 is 480) and the interpolation       *)
(* parameter t counts 1/60 (1.0 is 60), so that every quotient the ramp    *)
(* takes is exact.  Chunk coordinates stay far inside i32.                 *)
(*                                                                         *)
(* Scheduling.  run() adds update_world_position and manage_chunks to      *)
(* Update in one tuple with no ordering between them, so a pass of the     *)
(* schedule runs each once, in either order.  WorldPosition's change       *)
(* detection is the flag wp_changed: set when the resource is inserted and *)
(* when update_world_position writes through ResMut, cleared when          *)
(* manage_chunks has run.  Commands take effect within the pass.           *)
(*                                                                         *)
(* Entities.  The world hands out entity ids that are never reused (an     *)
(* Entity is an index with a generation); live holds the ids spawn_chunk   *)
(* got that no despawn command has removed.  No other system of the        *)
(* repository despawns: toggle_wireframe only inserts and removes the      *)
(* Wireframe component of the Ground entities.                             *)
(***************************************************************************)
EXTENDS Integers, Sequences, FiniteSets, TLC

VARIABLES
    camera,          \* what camera_query.get_single() yields: <<>> (Err) or <<x, z>>
    world_pos,       \* Res<WorldPosition>: [chunk_x, chunk_z]
    wp_changed,      \* WorldPosition was added or written since manage_chunks last ran
    loaded_chunks,   \* ChunkManager.loaded_chunks: (x, z) -> <<terrain, water option>>
    render_distance, \* ChunkManager.render_distance
    lake,            \* the height field the noise generators stand for (fixed at start)
    live,            \* entities alive in the world that spawn_chunk created
    next_entity,     \* next entity id the world hands out
    despawn_missed,  \* entities a despawn command found already gone
    ran,             \* systems of the Update schedule that already ran this tick
    tick,            \* number of the running Update pass
    last_update,     \* history: the last run of update_world_position
    last_manage,     \* history: the last run of manage_chunks
    manage_runs,     \* history: how many times manage_chunks ran
    writes_unseen,   \* history: writes of WorldPosition manage_chunks has not yet run after
    probe            \* argument and result of a pure function applied on its own

vars == <<camera, world_pos, wp_changed, loaded_chunks, render_distance, lake,
          live, next_entity, despawn_missed, ran, tick, last_update, last_manage,
          manage_runs, writes_unseen, probe>>

world_vars == <<camera, world_pos, wp_changed, loaded_chunks, render_distance, lake,
                live, next_entity, despawn_missed, ran, tick, last_update,
                last_manage, manage_runs, writes_unseen>>

----------------------------------------------------------------------------
(* Bounds of the model *)

MaxTicks == 2           \* Update passes explored
MaxSubdivisions == 1    \* water grids of the synthetic height fields: 1..MaxSubdivisions

(* Program constants *)

CHUNK_SIZE == 500       \* 50.0
RENDER_DISTANCE == 3
WATER_LEVEL == 10       \* 1.0
WATER_SUBDIVISIONS == 20

None == <<>>
Some(e) == <<e>>

Abs(n) == IF n < 0 THEN -n ELSE n

----------------------------------------------------------------------------
(* Viewer tracker *)

\* f32::floor of n / d for d > 0, then `as i32`: rounds toward negative infinity.
Trunc(n, d) == IF n >= 0 THEN n \div d ELSE -((-n) \div d)

Floor(n, d) == IF n >= 0 THEN n \div d ELSE -((-n + d - 1) \div d)

\* (camera_transform.translation.x / CHUNK_SIZE).floor() as i32, per axis
ChunkCoord(cam) == [chunk_x |-> Floor(cam[1], CHUNK_SIZE),
                    chunk_z |-> Floor(cam[2], CHUNK_SIZE)]

----------------------------------------------------------------------------
(* Height-to-color ramp *)

T_ONE == 60             \* t = 1.0

NoClamp(t, lo, hi) == t

\* f32::clamp
Clamp(t, lo, hi) == IF t < lo THEN lo ELSE IF t > hi THEN hi ELSE t

\* color1[i] + (color2[i] - color1[i]) * t, on the four channels
lerp_color(color1, color2, t) ==
    LET tc == Clamp(t, 0, T_ONE)
    IN  [i \in 1..4 |-> color1[i] + ((color2[i] - color1[i]) * tc) \div T_ONE]

sand_color  == <<480, 420, 240, 600>>   \* [0.8, 0.7, 0.4, 1.0]
grass_color == <<180, 360, 120, 600>>   \* [0.3, 0.6, 0.2, 1.0]
rock_color  == <<300, 240, 180, 600>>   \* [0.5, 0.4, 0.3, 1.0]
snow_color  == <<540, 540, 540, 600>>   \* [0.9, 0.9, 0.9, 1.0]

sand_level  == 3        \* 0.3
grass_level == 15       \* 1.5
rock_level  == 30       \* 3.0
snow_level  == 40       \* 4.0

\* (height - from) / (to - from)
RampT(height, from, to) == ((height - from) * T_ONE) \div (to - from)

get_terrain_color(height) ==
    IF height < sand_level THEN sand_color
    ELSE IF height < grass_level
         THEN lerp_color(sand_color, grass_color, RampT(height, sand_level, grass_level))
    ELSE IF height < rock_level
         THEN lerp_color(grass_color, rock_color, RampT(height, grass_level, rock_level))
    ELSE IF height < snow_level
         THEN lerp_color(rock_color, snow_color, RampT(height, rock_level, snow_level))
    ELSE snow_color

----------------------------------------------------------------------------
(* Height field *)

\* The two BasicMulti<Perlin> generators are a library: what the model keeps of
\* them is that the height is a fixed function of the world position.  The
\* function used is a basin around the point l: the height is below
\* WATER_LEVEL within 30.0 (Manhattan) of it and rises by 0.1 every 10.0.
NoiseHeight(l, wx, wz) == 7 + (Abs(wx - l[1]) + Abs(wz - l[2])) \div 100

\* Synthetic height: given sample by sample on the grid of the chunk at (0, 0)
GridHeight(field, wx, wz) ==
    LET step == CHUNK_SIZE \div field.subdivisions
        half_size == CHUNK_SIZE \div 2
    IN  field.samples[<<(wx + half_size) \div step, (wz + half_size) \div step>>]

\* Synthetic height: a level ground with at most one dip
DipHeight(field, wx, wz) == IF <<wx, wz>> = field.dip THEN field.depth ELSE field.base

NoiseField(l) == [kind |-> "noise", lake |-> l]

\* (main_val + detail_val) as f32, under the height field in use
terrain_height(field, wx, wz) ==
    IF field.kind = "noise" THEN NoiseHeight(field.lake, wx, wz)
    ELSE IF field.kind = "grid" THEN GridHeight(field, wx, wz)
    ELSE DipHeight(field, wx, wz)

----------------------------------------------------------------------------
(* Water mesher *)

BelowOrAtWater(height) == height <= WATER_LEVEL

\* if terrain_height < WATER_LEVEL
BelowWater(height) == height < WATER_LEVEL

\* The sample of generate_water_mesh at grid index (x, z):
\* local = index * step - half_size, world = local + world_offset.
WaterSample(x, z, world_offset_x, world_offset_z, subdivisions) ==
    LET step == CHUNK_SIZE \div subdivisions
        half_size == CHUNK_SIZE \div 2
    IN  <<(x * step - half_size) + world_offset_x,
          (z * step - half_size) + world_offset_z>>

\* has_water after the two loops over 0..=subdivisions (the breaks only cut the
\* search short)
has_water(field, world_offset_x, world_offset_z, subdivisions) ==
    \E z \in 0..subdivisions : \E x \in 0..subdivisions :
        LET p == WaterSample(x, z, world_offset_x, world_offset_z, subdivisions)
        IN  BelowWater(terrain_height(field, p[1], p[2]))

\* Option<Mesh>: None, or Some of the plane of the chunk footprint
generate_water_mesh(field, world_offset_x, world_offset_z, subdivisions) ==
    IF ~has_water(field, world_offset_x, world_offset_z, subdivisions)
    THEN None
    ELSE Some([size |-> CHUNK_SIZE, subdivisions |-> subdivisions])

----------------------------------------------------------------------------
(* The world the model explores *)

\* Where the camera transform may stand when a pass begins (tenths of a unit).
CameraXs == {-501, -500, -10, 0, 499, 500, 1500}
CameraZs == {-1, 0}
CameraInputs == {None} \cup (CameraXs \X CameraZs)

\* The basins the noise field may have
Lakes == {<<0, 0>>, <<1000, -400>>}

\* The chunks a window around a camera input can hold
ChunkXs == { Floor(x, CHUNK_SIZE) + d : x \in CameraXs, d \in -RENDER_DISTANCE..RENDER_DISTANCE }
ChunkZs == { Floor(z, CHUNK_SIZE) + d : z \in CameraZs, d \in -RENDER_DISTANCE..RENDER_DISTANCE }

\* generate_water_mesh(world_offset_x, world_offset_z, 20) of every such chunk
\* under every noise field, computed once: the function is pure.
WaterMeshTable ==
    [l \in Lakes |->
        [o \in { <<x * CHUNK_SIZE, z * CHUNK_SIZE>> : x \in ChunkXs, z \in ChunkZs } |->
            generate_water_mesh(NoiseField(l), o[1], o[2], WATER_SUBDIVISIONS)]]

----------------------------------------------------------------------------
(* Chunk spawner *)

WaterAlways(water_mesh) == TRUE

\* if let Some(water_mesh) = generate_water_mesh(..)
WaterWanted(water_mesh) == water_mesh # None

\* The call generate_water_mesh(world_offset_x, world_offset_z, 20) of
\* spawn_chunk: looked up for a noise field, computed for a synthetic one.
chunk_water_mesh(field, world_offset_x, world_offset_z) ==
    IF field.kind = "noise"
    THEN WaterMeshTable[field.lake][<<world_offset_x, world_offset_z>>]
    ELSE generate_water_mesh(field, world_offset_x, world_offset_z, WATER_SUBDIVISIONS)

\* spawn_chunk: the terrain entity takes the next id; the water entity, when a
\* water mesh came back, the one after.  The vertex colors and heights of the
\* terrain mesh are asset contents, not kept.  Returns the pair stored in
\* loaded_chunks and the next free id.
spawn_chunk(field, next, chunk_x, chunk_z) ==
    LET world_offset_x == chunk_x * CHUNK_SIZE
        world_offset_z == chunk_z * CHUNK_SIZE
        terrain_entity == next
        water_mesh == chunk_water_mesh(field, world_offset_x, world_offset_z)
        water_entity == IF WaterWanted(water_mesh) THEN Some(next + 1) ELSE None
    IN  [handles |-> <<terrain_entity, water_entity>>,
         next    |-> IF water_entity = None THEN next + 1 ELSE next + 2]

\* The entities a record of loaded_chunks names
RecordEntities(rec) == {rec[1]} \cup {rec[2][i] : i \in 1..Len(rec[2])}

TerrainOnly(rec) == {rec[1]}

\* The entities manage_chunks despawns for a record it drops: the terrain
\* entity and, if let Some(water_entity), the water entity
DespawnTargets(rec) == {rec[1]} \cup {rec[2][i] : i \in 1..Len(rec[2])}

\* How many despawn commands a run queues for entity e: one for each slot of a
\* dropped record that names it
DespawnCount(loaded, removed, e) ==
    Cardinality({ c \in removed : loaded[c][1] = e })
    + Cardinality({ c \in removed : loaded[c][2] = Some(e) })

----------------------------------------------------------------------------
(* Chunk reconciler *)

RequiredExclusive(player_chunk_x, player_chunk_z, rd) ==
    { <<x, z>> : x \in (player_chunk_x - rd)..(player_chunk_x + rd - 1),
                 z \in (player_chunk_z - rd)..(player_chunk_z + rd - 1) }

\* The two nested inclusive ranges filling required_chunks
required_chunks(player_chunk_x, player_chunk_z, rd) ==
    { <<x, z>> : x \in (player_chunk_x - rd)..(player_chunk_x + rd),
                 z \in (player_chunk_z - rd)..(player_chunk_z + rd) }

RemoveNone(loaded, required) == {}

\* chunks_to_remove: the loaded coordinates that are not required
chunks_to_remove(loaded, required) == { c \in DOMAIN loaded : c \notin required }

SpawnEvery(loaded, chunk_pos) == TRUE

\* if !chunk_manager.loaded_chunks.contains_key(&chunk_pos)
MustSpawn(loaded, chunk_pos) == chunk_pos \notin DOMAIN loaded

\* The order the model walks required_chunks in.  A HashSet iterates in no
\* specified order; the order only decides which id each new entity gets.
Before(a, b) == a[1] < b[1] \/ (a[1] = b[1] /\ a[2] < b[2])
FirstOf(S) == CHOOSE c \in S : \A d \in S \ {c} : Before(c, d)

\* for chunk_pos in required_chunks { if !contains_key { spawn_chunk; insert } }
RECURSIVE SpawnLoop(_, _, _, _)
SpawnLoop(todo, loaded, next, spawned) ==
    IF todo = {}
    THEN [loaded |-> loaded, next |-> next, spawned |-> spawned]
    ELSE LET chunk_pos == FirstOf(todo)
         IN  IF MustSpawn(loaded, chunk_pos)
             THEN LET r == spawn_chunk(NoiseField(lake), next, chunk_pos[1], chunk_pos[2])
                  IN  SpawnLoop(todo \ {chunk_pos},
                                [c \in DOMAIN loaded \cup {chunk_pos} |->
                                    IF c = chunk_pos THEN r.handles ELSE loaded[c]],
                                r.next,
                                Append(spawned, chunk_pos))
             ELSE SpawnLoop(todo \ {chunk_pos}, loaded, next, spawned)

Polled(changed) == FALSE

\* if !world_pos.is_changed() { return; }
ReconcileSkipped(changed) == ~changed

\* The body of manage_chunks after the is_changed gate: the registry, the world's
\* entities and the id counter it leaves, and what it did on the way.
Reconcile(pos, rd, loaded, alive, next) ==
    LET required == required_chunks(pos.chunk_x, pos.chunk_z, rd)
        removed  == chunks_to_remove(loaded, required)
        despawns == UNION { DespawnTargets(loaded[c]) : c \in removed }
        missed   == { e \in despawns : e \notin alive
                                        \/ DespawnCount(loaded, removed, e) > 1 }
        kept     == [c \in DOMAIN loaded \ removed |-> loaded[c]]
        r        == SpawnLoop(required, kept, next, <<>>)
        created  == UNION { RecordEntities(r.loaded[r.spawned[i]]) :
                              i \in 1..Len(r.spawned) }
    IN  [loaded    |-> r.loaded,
         live      |-> (alive \ despawns) \cup created,
         next      |-> r.next,
         required  |-> required,
         removed   |-> removed,
         despawned |-> despawns,
         missed    |-> missed,
         spawned   |-> r.spawned]

----------------------------------------------------------------------------
(* The Update schedule *)

Systems == {"update_world_position", "manage_chunks"}

NoProbe == [fn |-> "none"]

NoUpdate == [tick |-> 0, camera |-> None, before |-> [chunk_x |-> 0, chunk_z |-> 0],
             wrote |-> FALSE]

\* last_manage: tick, body (the run went past the is_changed gate), pos (the
\* WorldPosition at the run), read (the coordinate the last run past the gate
\* read), before (loaded_chunks when the run began) and what the run did;
\* first and unseen: whether it was the first run and how many writes of
\* WorldPosition had happened since the run before; prev_*: pos and read one
\* run earlier; reconciled: some run went past the gate.
NoManage == [tick |-> 0, body |-> FALSE, first |-> FALSE, unseen |-> 0,
             pos |-> [chunk_x |-> 0, chunk_z |-> 0],
             prev_pos |-> [chunk_x |-> 0, chunk_z |-> 0],
             read |-> [chunk_x |-> 0, chunk_z |-> 0],
             prev_read |-> [chunk_x |-> 0, chunk_z |-> 0],
             reconciled |-> FALSE, prev_reconciled |-> FALSE,
             before |-> <<>>, required |-> {}, removed |-> {}, despawned |-> {},
             spawned |-> <<>>]

\* After run() built the app and the Startup schedule ran: both resources
\* inserted, the camera of spawn_camera at (0.0, 1.0, 0.0), no chunk yet.
InitWorld(rds, lakes) ==
    /\ camera = <<0, 0>>
    /\ world_pos = [chunk_x |-> 0, chunk_z |-> 0]
    /\ wp_changed = TRUE
    /\ loaded_chunks = <<>>
    /\ render_distance \in rds
    /\ lake \in lakes
    /\ live = {}
    /\ next_entity = 1
    /\ despawn_missed = {}
    /\ ran = Systems
    /\ tick = 0
    /\ last_update = NoUpdate
    /\ last_manage = NoManage
    /\ manage_runs = 0
    /\ writes_unseen = 0
    /\ probe = NoProbe

\* ChunkManager.render_distance is RENDER_DISTANCE in run(); the smaller
\* distances are the same code with a smaller window.
Init == InitWorld(0..RENDER_DISTANCE, Lakes)

\* A pass of the Update schedule begins; the camera stands where the camera
\* systems and the player left it, or the query finds no single camera.
BeginTick ==
    /\ ran = Systems
    /\ tick < MaxTicks
    /\ \E cam \in CameraInputs : camera' = cam
    /\ ran' = {}
    /\ tick' = tick + 1
    /\ UNCHANGED <<world_pos, wp_changed, loaded_chunks, render_distance, lake, live,
                   next_entity, despawn_missed, last_update, last_manage, manage_runs,
                   writes_unseen, probe>>

AlwaysWrite(pos, new) == TRUE

\* if world_pos.chunk_x != new_chunk_x || world_pos.chunk_z != new_chunk_z
CoordDiffers(pos, new) == pos.chunk_x # new.chunk_x \/ pos.chunk_z # new.chunk_z

update_world_position ==
    /\ "update_world_position" \notin ran
    /\ ran' = ran \cup {"update_world_position"}
    /\ LET writes == camera # None /\ CoordDiffers(world_pos, ChunkCoord(camera))
       IN  /\ world_pos' = IF writes THEN ChunkCoord(camera) ELSE world_pos
           /\ wp_changed' = (wp_changed \/ writes)
           /\ writes_unseen' = IF writes THEN writes_unseen + 1 ELSE writes_unseen
           /\ last_update' = [tick |-> tick, camera |-> camera, before |-> world_pos,
                              wrote |-> writes]
    /\ UNCHANGED <<camera, loaded_chunks, render_distance, lake, live, next_entity,
                   despawn_missed, tick, last_manage, manage_runs, probe>>

manage_chunks ==
    /\ "manage_chunks" \notin ran
    /\ ran' = ran \cup {"manage_chunks"}
    /\ wp_changed' = FALSE
    /\ writes_unseen' = 0
    /\ manage_runs' = manage_runs + 1
    /\ IF ReconcileSkipped(wp_changed)
       THEN /\ last_manage' = [last_manage EXCEPT
                                  !.tick = tick, !.body = FALSE,
                                  !.first = (manage_runs = 0), !.unseen = writes_unseen,
                                  !.prev_pos = last_manage.pos, !.pos = world_pos,
                                  !.before = loaded_chunks,
                                  !.required = {}, !.removed = {}, !.despawned = {},
                                  !.spawned = <<>>]
            /\ UNCHANGED <<loaded_chunks, live, next_entity, despawn_missed>>
       ELSE \E r \in {Reconcile(world_pos, render_distance, loaded_chunks, live,
                                next_entity)} :
                /\ loaded_chunks' = r.loaded
                /\ live' = r.live
                /\ next_entity' = r.next
                /\ despawn_missed' = despawn_missed \cup r.missed
                /\ last_manage' = [tick |-> tick, body |-> TRUE,
                                   first |-> (manage_runs = 0), unseen |-> writes_unseen,
                                   pos |-> world_pos, prev_pos |-> last_manage.pos,
                                   read |-> world_pos, prev_read |-> last_manage.read,
                                   reconciled |-> TRUE,
                                   prev_reconciled |-> last_manage.reconciled,
                                   before |-> loaded_chunks,
                                   required |-> r.required, removed |-> r.removed,
                                   despawned |-> r.despawned, spawned |-> r.spawned]
    /\ UNCHANGED <<camera, world_pos, render_distance, lake, tick, last_update, probe>>

Next == BeginTick \/ update_world_position \/ manage_chunks

Spec == Init /\ [][Next]_vars

----------------------------------------------------------------------------
(* Command line: main of bevy-project/src/main.rs *)

\* Iterator::next on env::args(): the item, if one is left, and the iterator
\* after the call.  An exhausted Args keeps yielding None.
args_next(args) ==
    IF args = <<>> THEN [item |-> None, rest |-> <<>>]
    ELSE [item |-> Some(Head(args)), rest |-> Tail(args)]

\* The arm `_` of the match: println!("Usage : {} [client]", args.next().unwrap())
\* takes a further item from the iterator, after the two calls before the
\* match, and unwraps it.
UsageArm(argv, second, third) ==
    IF third.item = None
    THEN [client |-> FALSE, panicked |-> TRUE, stdout |-> <<>>]
    ELSE [client |-> FALSE, panicked |-> FALSE,
          stdout |-> <<"Usage : ", third.item[1], " [client]">>]

\* main: what the process does for the argument vector argv (argv[1] is the
\* program name): whether client::run() was called, whether it panicked, and
\* the pieces it printed.
main(argv) ==
    LET first  == args_next(argv)
        second == args_next(first.rest)
    IN  IF second.item = Some("client")
        THEN [client |-> TRUE, panicked |-> FALSE,
              stdout |-> <<"Running on client mode">>]
        ELSE UsageArm(argv, second, args_next(second.rest))

----------------------------------------------------------------------------
(* The pure functions on their own *)

MaxProbeHeight == 100   \* heights fed to the color ramp: -MaxProbeHeight/2..MaxProbeHeight
MaxProbePos == 1100     \* camera positions fed to the chunk coordinate: -MaxProbePos..MaxProbePos
RampColors == {sand_color, grass_color, rock_color, snow_color}

\* Heights fed to the water test: below, just below, at and above WATER_LEVEL
ProbeHeights == {0, 9, 10, 11}

\* The synthetic height fields
GridFields(subdivisions) ==
    [kind : {"grid"}, subdivisions : {subdivisions},
     samples : [(0..subdivisions) \X (0..subdivisions) -> ProbeHeights]]
DipPoints == { <<x, z>> : x \in {-250, -225, 0, 12, 250}, z \in {-250, 0, 250} }
DipFields == [kind : {"dip"}, base : {10, 25}, dip : {None} \cup DipPoints,
              depth : {0, 9, 10}]

\* Argument vectors: up to MaxArgs words after nothing or the program name
MaxArgs == 2
ArgWords == {"bevy-project", "client", "server", "Client", ""}
ArgVectors == UNION { [1..n -> ArgWords] : n \in 0..(MaxArgs + 1) }

InitProbe == InitWorld({RENDER_DISTANCE}, {<<0, 0>>})

ProbeChunkCoord ==
    /\ probe = NoProbe
    /\ \E x \in -MaxProbePos..MaxProbePos :
          probe' = [fn |-> "chunk_coord", x |-> x, z |-> -x,
                    coord |-> ChunkCoord(<<x, -x>>)]
    /\ UNCHANGED world_vars

ProbeTerrainColor ==
    /\ probe = NoProbe
    /\ \E height \in -(MaxProbeHeight \div 2)..MaxProbeHeight :
          probe' = [fn |-> "get_terrain_color", height |-> height,
                    color |-> get_terrain_color(height)]
    /\ UNCHANGED world_vars

ProbeLerpColor ==
    /\ probe = NoProbe
    /\ \E color1 \in RampColors, color2 \in RampColors, t \in -T_ONE..(2 * T_ONE) :
          probe' = [fn |-> "lerp_color", color1 |-> color1, color2 |-> color2,
                    t |-> t, color |-> lerp_color(color1, color2, t)]
    /\ UNCHANGED world_vars

ProbeWaterMesh ==
    /\ probe = NoProbe
    /\ \E subdivisions \in 1..MaxSubdivisions :
       \E field \in GridFields(subdivisions) :
          probe' = [fn |-> "generate_water_mesh", field |-> field,
                    mesh |-> generate_water_mesh(field, 0, 0, subdivisions)]
    /\ UNCHANGED world_vars

ProbeSpawnChunk ==
    /\ probe = NoProbe
    /\ \E field \in DipFields, chunk_x \in {0, 1} :
          probe' = [fn |-> "spawn_chunk", field |-> field, chunk_x |-> chunk_x,
                    mesh |-> generate_water_mesh(field, chunk_x * CHUNK_SIZE, 0,
                                                 WATER_SUBDIVISIONS),
                    out |-> spawn_chunk(field, next_entity, chunk_x, 0)]
    /\ UNCHANGED world_vars

ProbeMain ==
    /\ probe = NoProbe
    /\ \E argv \in ArgVectors :
          probe' = [fn |-> "main", argv |-> argv, out |-> main(argv)]
    /\ UNCHANGED world_vars

NextProbe == ProbeChunkCoord \/ ProbeTerrainColor \/ ProbeLerpColor \/ ProbeWaterMesh
                \/ ProbeSpawnChunk \/ ProbeMain

SpecProbe == InitProbe /\ [][NextProbe]_vars

----------------------------------------------------------------------------
(* Properties of the chunk reconciler *)

SetMin(S) == CHOOSE m \in S : \A n \in S : m <= n
SetMax(S) == CHOOSE m \in S : \A n \in S : m >= n

\* Every coordinate a registry of the model can hold, and a margin around them
Universe == ((SetMin(ChunkXs) - 2)..(SetMax(ChunkXs) + 2))
                \X ((SetMin(ChunkZs) - 2)..(SetMax(ChunkZs) + 2))

\* c lies in the square window of radius r around pos
InWindow(c, pos, r) == Abs(c[1] - pos.chunk_x) <= r /\ Abs(c[2] - pos.chunk_z) <= r

Window(pos, r) == { c \in Universe : InWindow(c, pos, r) }

Side(r) == 2 * r + 1

SeqRange(q) == { q[i] : i \in 1..Len(q) }

\* C1: once manage_chunks has run past its gate, a coordinate is a key of
\* loaded_chunks exactly when it lies in the window around the coordinate that
\* run read, whatever the moves before; the registry holds (2R+1)^2 records.
C1_Residency ==
    last_manage.reconciled =>
        /\ DOMAIN loaded_chunks \subseteq Universe
        /\ \A c \in Universe :
              c \in DOMAIN loaded_chunks <=> InWindow(c, last_manage.read, render_distance)
        /\ Cardinality(DOMAIN loaded_chunks) = Side(render_distance) * Side(render_distance)

\* C1 witness: a later run at the full render distance that let chunks go
C1_Witness ==
    /\ last_manage.body /\ last_manage.prev_reconciled
    /\ render_distance = RENDER_DISTANCE
    /\ last_manage.removed # {}
    /\ Abs(last_manage.read.chunk_x - last_manage.prev_read.chunk_x) > 1

\* C2: the required set of a run has (2R+1)^2 elements and is the product of
\* the inclusive ranges [cx-R, cx+R] and [cz-R, cz+R].
C2_RequiredSet ==
    last_manage.body =>
        /\ last_manage.required \subseteq Universe
        /\ \A c \in Universe :
              c \in last_manage.required <=>
                  /\ last_manage.read.chunk_x - render_distance <= c[1]
                  /\ c[1] <= last_manage.read.chunk_x + render_distance
                  /\ last_manage.read.chunk_z - render_distance <= c[2]
                  /\ c[2] <= last_manage.read.chunk_z + render_distance
        /\ Cardinality(last_manage.required) = Side(render_distance) * Side(render_distance)

\* C2 witness: a required set around a negative coordinate at the full distance
C2_Witness ==
    /\ last_manage.body
    /\ render_distance = RENDER_DISTANCE
    /\ last_manage.read.chunk_x < 0 /\ last_manage.read.chunk_z < 0
    /\ Cardinality(last_manage.required) = 49

\* C3: a run of manage_chunks that finds the coordinate the run before it
\* found changes no record, calls spawn_chunk for nothing and despawns nothing.
C3_Idempotent ==
    (manage_runs >= 2 /\ last_manage.pos = last_manage.prev_pos) =>
        /\ loaded_chunks = last_manage.before
        /\ last_manage.spawned = <<>>
        /\ last_manage.despawned = {}
        /\ last_manage.removed = {}

\* C3 witness: a second run with the coordinate of the first, at a distance > 0
C3_Witness ==
    /\ manage_runs = 2
    /\ last_manage.pos = last_manage.prev_pos
    /\ render_distance > 0
    /\ loaded_chunks # <<>>
    /\ loaded_chunks = last_manage.before

\* C4: a run that reads B after the run before read A calls spawn_chunk once for
\* each coordinate of window(B) \ window(A) and for no other, releases exactly
\* window(A) \ window(B), and leaves the handles of window(A) \cap window(B) as
\* they were.  With R = 1 the first run at (0,0) leaves 9 chunks, and (0,0) to
\* (1,0) creates 3, releases 3 and keeps 6.
C4_SlidingWindow ==
    LET A == Window(last_manage.prev_read, render_distance)
        B == Window(last_manage.read, render_distance)
    IN  /\ (last_manage.body /\ last_manage.prev_reconciled) =>
              /\ SeqRange(last_manage.spawned) = B \ A
              /\ Len(last_manage.spawned) = Cardinality(B \ A)
              /\ last_manage.removed = A \ B
              /\ \A c \in A \cap B : loaded_chunks[c] = last_manage.before[c]
              /\ (/\ render_distance = 1
                  /\ last_manage.prev_read = [chunk_x |-> 0, chunk_z |-> 0]
                  /\ last_manage.read = [chunk_x |-> 1, chunk_z |-> 0]) =>
                    /\ Len(last_manage.spawned) = 3
                    /\ Cardinality(last_manage.removed) = 3
                    /\ Cardinality(DOMAIN loaded_chunks \cap DOMAIN last_manage.before) = 6
        /\ (/\ last_manage.body /\ ~last_manage.prev_reconciled
            /\ render_distance = 1
            /\ last_manage.read = [chunk_x |-> 0, chunk_z |-> 0]) =>
              Cardinality(DOMAIN loaded_chunks) = 9

\* C4 witness: the move from (0,0) to (1,0) at R = 1
C4_Witness ==
    /\ last_manage.body /\ last_manage.prev_reconciled
    /\ render_distance = 1
    /\ last_manage.prev_read = [chunk_x |-> 0, chunk_z |-> 0]
    /\ last_manage.read = [chunk_x |-> 1, chunk_z |-> 0]
    /\ Len(last_manage.spawned) = 3

\* C5 as stated: manage_chunks goes past its gate, in the first pass as in any
\* other, only if the coordinate in WorldPosition differs from the one its run
\* before found (at the first run, from the one the resource started with); and
\* update_world_position writes only a coordinate that differs.
C5_EdgeTriggered ==
    /\ last_manage.body => last_manage.pos # last_manage.prev_pos
    /\ last_update.wrote =>
          /\ last_update.camera # None
          /\ ChunkCoord(last_update.camera) # last_update.before

\* C5 amended: manage_chunks goes past its gate only on its first run or when
\* update_world_position wrote WorldPosition since its run before; any other
\* run changes nothing; update_world_position writes only a coordinate that
\* differs from the stored one.
C5_EdgeTriggeredAfterFirstRun ==
    /\ last_manage.body => (last_manage.first \/ last_manage.unseen > 0)
    /\ (manage_runs >= 1 /\ ~last_manage.body) =>
          /\ loaded_chunks = last_manage.before
          /\ last_manage.spawned = <<>>
          /\ last_manage.despawned = {}
    /\ last_update.wrote =>
          /\ last_update.camera # None
          /\ ChunkCoord(last_update.camera) # last_update.before
          /\ world_pos = ChunkCoord(last_update.camera)

\* C5 witness: a pass in which the camera stayed in its chunk and the run of
\* manage_chunks, not its first, returned at the gate
C5_Witness ==
    /\ manage_runs = 2
    /\ ~last_manage.body
    /\ last_update.tick = tick /\ last_update.camera # None /\ ~last_update.wrote
    /\ last_manage.tick = tick
    /\ loaded_chunks # <<>>

\* C6 as stated: manage_chunks runs after the update_world_position of its
\* pass, and at the end of a pass in which the coordinate changed the registry
\* is the window around the new coordinate.
C6_ReconcileAfterUpdate ==
    /\ "manage_chunks" \in ran => "update_world_position" \in ran
    /\ (ran = Systems /\ last_update.tick = tick /\ last_update.wrote) =>
          DOMAIN loaded_chunks = Window(world_pos, render_distance)

\* C10 as stated: in a pass in which update_world_position finds no camera,
\* WorldPosition is not written and manage_chunks does nothing.
C10_NoCameraNoReconcile ==
    (tick >= 1 /\ last_update.tick = tick /\ last_update.camera = None) =>
        /\ ~last_update.wrote
        /\ world_pos = last_update.before
        /\ last_manage.tick = tick =>
              /\ ~last_manage.body
              /\ loaded_chunks = last_manage.before

\* C10 amended: in a pass in which update_world_position finds no camera,
\* WorldPosition is not written and not marked changed; manage_chunks does
\* nothing in that pass unless it runs for the first time or a write made in an
\* earlier pass has not reached it yet.
C10_NoCameraNoWrite ==
    (tick >= 1 /\ last_update.tick = tick /\ last_update.camera = None) =>
        /\ ~last_update.wrote
        /\ world_pos = last_update.before
        /\ last_manage.tick = tick =>
              \/ /\ ~last_manage.body
                 /\ loaded_chunks = last_manage.before
                 /\ last_manage.spawned = <<>>
                 /\ last_manage.despawned = {}
              \/ last_manage.first
              \/ last_manage.unseen > 0

\* C10 witness: a second pass without a camera in which manage_chunks, after
\* update_world_position, returned at the gate and the chunks stayed
C10_Witness ==
    /\ tick = 2 /\ ran = Systems
    /\ last_update.tick = tick /\ last_update.camera = None
    /\ last_manage.tick = tick /\ ~last_manage.body
    /\ loaded_chunks # <<>>
    /\ loaded_chunks = last_manage.before

\* The slots <<coordinate, 1 or 2>> of the registry reg that hold entity e
SlotsOf(reg, e) ==
    { <<c, 1>> : c \in { d \in DOMAIN reg : reg[d][1] = e } }
        \cup { <<c, 2>> : c \in { d \in DOMAIN reg : reg[d][2] = Some(e) } }

\* The entities the registry reg names
Handles(reg) == UNION { RecordEntities(reg[c]) : c \in DOMAIN reg }

\* C11: when a pass of Update has ended, the live entities spawn_chunk created
\* are exactly the handles in loaded_chunks and each is held by one slot of one
\* record; a run of manage_chunks that dropped coordinates despawned the
\* terrain entity and the water entity, if any, of each dropped record and
\* nothing else, and the records are gone; no despawn command ever found its
\* entity already gone.
C11_ExclusiveOwnership ==
    ran = Systems =>
        /\ live = Handles(loaded_chunks)
        /\ \A e \in live : Cardinality(SlotsOf(loaded_chunks, e)) = 1
        /\ despawn_missed = {}
        /\ \A c \in last_manage.removed :
              /\ c \in DOMAIN last_manage.before
              /\ c \notin DOMAIN loaded_chunks
              /\ last_manage.before[c][1] \in last_manage.despawned
              /\ last_manage.before[c][1] \notin live
              /\ last_manage.before[c][2] # None =>
                    /\ last_manage.before[c][2][1] \in last_manage.despawned
                    /\ last_manage.before[c][2][1] \notin live
        /\ last_manage.despawned =
              UNION { RecordEntities(last_manage.before[c]) : c \in last_manage.removed }
        /\ \A e \in last_manage.despawned : e < next_entity /\ e \notin live

\* C11 witness: the end of a pass whose run of manage_chunks dropped a chunk
\* with water and a chunk without, while other chunks stayed and came
C11_Witness ==
    /\ ran = Systems /\ last_manage.tick = tick /\ last_manage.body
    /\ \E c \in last_manage.removed : last_manage.before[c][2] # None
    /\ \E c \in last_manage.removed : last_manage.before[c][2] = None
    /\ \E c \in DOMAIN loaded_chunks : c \in DOMAIN last_manage.before
    /\ last_manage.spawned # <<>>
    /\ \E c \in DOMAIN loaded_chunks : loaded_chunks[c][2] # None

----------------------------------------------------------------------------
(* Properties of the pure functions *)

\* C7: the chunk coordinate of a position is the k with k * chunk_size <= p <
\* (k + 1) * chunk_size on each axis; every p in [-chunk_size, 0) gives -1.
C7_FloorDivision ==
    probe.fn = "chunk_coord" =>
        /\ probe.coord.chunk_x * CHUNK_SIZE <= probe.x
        /\ probe.x < (probe.coord.chunk_x + 1) * CHUNK_SIZE
        /\ probe.coord.chunk_z * CHUNK_SIZE <= probe.z
        /\ probe.z < (probe.coord.chunk_z + 1) * CHUNK_SIZE
        /\ (-CHUNK_SIZE <= probe.x /\ probe.x < 0) => probe.coord.chunk_x = -1
        /\ (-CHUNK_SIZE <= probe.z /\ probe.z < 0) => probe.coord.chunk_z = -1

\* C7 witness: x = -1.0 gives chunk -1
C7_Witness ==
    /\ probe.fn = "chunk_coord"
    /\ probe.x = -10
    /\ probe.coord.chunk_x = -1 /\ probe.coord.chunk_z = 0

\* C8: generate_water_mesh returns a mesh exactly when some sampled height is
\* strictly below WATER_LEVEL, and spawn_chunk fills the water slot exactly
\* when a mesh was returned.
C8_WaterPresence ==
    /\ probe.fn = "generate_water_mesh" =>
          (probe.mesh # None <=>
              \E i \in DOMAIN probe.field.samples : probe.field.samples[i] < WATER_LEVEL)
    /\ probe.fn = "spawn_chunk" =>
          /\ probe.out.handles[2] # None <=> probe.mesh # None
          /\ probe.mesh # None <=>
                \E x \in 0..WATER_SUBDIVISIONS, z \in 0..WATER_SUBDIVISIONS :
                    LET wx == x * 25 - 250 + probe.chunk_x * CHUNK_SIZE
                        wz == z * 25 - 250
                    IN  (IF <<wx, wz>> = probe.field.dip THEN probe.field.depth
                         ELSE probe.field.base) < WATER_LEVEL

\* C8 witness: one sample below the level, the others at or above it, a mesh
C8_Witness ==
    /\ probe.fn = "generate_water_mesh"
    /\ Cardinality({ i \in DOMAIN probe.field.samples :
                        probe.field.samples[i] < WATER_LEVEL }) = 1
    /\ \E i \in DOMAIN probe.field.samples : probe.field.samples[i] = WATER_LEVEL
    /\ probe.mesh # None

\* C9: heights below 0.3 are sand and heights from 4.0 on are snow; at the
\* stops 0.3, 1.5 and 3.0 the color is sand, grass and rock; each segment
\* begins (t = 0) on the color the one before ends on (t = 1); lerp_color
\* clamps t to [0, 1].
C9_ColorRamp ==
    /\ probe.fn = "get_terrain_color" =>
          /\ probe.height < 3 => probe.color = <<480, 420, 240, 600>>
          /\ probe.height >= 40 => probe.color = <<540, 540, 540, 600>>
          /\ probe.height = 3 => probe.color = <<480, 420, 240, 600>>
          /\ probe.height = 15 => probe.color = <<180, 360, 120, 600>>
          /\ probe.height = 30 => probe.color = <<300, 240, 180, 600>>
    /\ probe.fn = "lerp_color" =>
          /\ probe.t <= 0 => probe.color = probe.color1
          /\ probe.t >= T_ONE => probe.color = probe.color2
          /\ \A i \in 1..4 :
                /\ probe.color[i] >= SetMin({probe.color1[i], probe.color2[i]})
                /\ probe.color[i] <= SetMax({probe.color1[i], probe.color2[i]})

\* C9 witness: the stop at 1.5, where the second segment begins on grass
C9_Witness ==
    /\ probe.fn = "get_terrain_color"
    /\ probe.height = 15
    /\ probe.color = grass_color

----------------------------------------------------------------------------
(* Properties of the command line *)

\* C12 as stated: main calls client::run() exactly when the first argument is
\* "client"; for every other argument vector, the one without arguments
\* included, it prints a usage line naming the program and returns without
\* panicking.
C12_Dispatch ==
    probe.fn = "main" =>
        LET is_client == Len(probe.argv) >= 2 /\ probe.argv[2] = "client"
        IN  /\ probe.out.client <=> is_client
            /\ ~is_client =>
                  /\ ~probe.out.panicked
                  /\ Len(probe.argv) >= 1 =>
                        probe.out.stdout = <<"Usage : ", probe.argv[1], " [client]">>

\* C12, what main does: client::run() exactly when the first argument is
\* "client"; otherwise a panic unless a second argument follows, and then
\* the usage line carries that second argument.
C12_DispatchActual ==
    probe.fn = "main" =>
        LET is_client == Len(probe.argv) >= 2 /\ probe.argv[2] = "client"
        IN  /\ probe.out.client <=> is_client
            /\ is_client => ~probe.out.panicked
            /\ ~is_client =>
                  /\ probe.out.panicked <=> Len(probe.argv) < 3
                  /\ Len(probe.argv) >= 3 =>
                        probe.out.stdout = <<"Usage : ", probe.argv[3], " [client]">>

\* C12: the run without arguments panicked
C12_PanicNoArgument ==
    /\ probe.fn = "main"
    /\ probe.argv = <<"bevy-project">>
    /\ probe.out.panicked

====
